---- MODULE Spec2Model ----
(***************************************************************************)
(* auto-wc: automatic event wiring for customized built-in elements.       *)
(*                                                                         *)
(* A model of src/src/index.ts: the name convention (isEventInterceptor-   *)
(* Method, getEventName), the AutoElement mixin (connectedCallback,        *)
(* attributeChangedCallback, disconnectedCallback, _wireAndLockEvents,     *)
(* _unwireEvents) and defineAutoWebComponent.  The host runtime the code   *)
(* calls into (property lookup and assignment, Object.defineProperty,      *)
(* Function.prototype.bind, EventTarget, CustomElementRegistry) is         *)
(* modelled by what the calls do to the state the code reads back.         *)
(*                                                                         *)
(* Strings the code inspects character by character (method names, event   *)
(* names) are sequences of one-character strings.                          *)
(***************************************************************************)
EXTENDS Integers, Sequences, FiniteSets, TLC

VARIABLES
  cls,          \* the implementation class the factory returned (fixed after Init)
  live,         \* the instances of cls that have been constructed
  own,          \* own[i]: the own properties of instance i, in insertion order
  listeners,    \* listeners[i]: the event listener list of instance i, in order
  cleanupFns,   \* cleanupFns[i]: AutoElement._cleanupFns of instance i
  counts,       \* per instance: notifications delivered, wire and unwire runs,
                \* bound functions created, and which of wire / unwire ran last
  cyc,          \* cyc[i][type]: the connect/dispatch/disconnect/dispatch cycles so far
  last,         \* what the most recent operation was and what it was observed to do
  registry,     \* customElements: tag -> registered implementation, or NoClass
  regLog,       \* counters of the registration surface and the last call's outcome
  nameIn,       \* a method name handed to the name convention
  nameOut       \* what the name convention made of it

vars == <<cls, live, own, listeners, cleanupFns, counts, cyc,
          last, registry, regLog, nameIn, nameOut>>

wiringVars == <<cls, live, own, listeners, cleanupFns, counts, cyc,
                last>>
regVars    == <<registry, regLog>>
nameVars   == <<nameIn, nameOut>>

-----------------------------------------------------------------------------
(* Bounds of the model. *)

MaxNameLen == 3      \* length of the generated method names
MaxConnects == 2     \* connected notifications delivered to one instance
MaxDisconnects == 2  \* disconnected notifications delivered to one instance
MaxDefines == 2      \* calls of defineAutoWebComponent
MaxPairLifecycle == 3  \* lifecycle notifications delivered to two instances

-----------------------------------------------------------------------------
(* Strings as character sequences. *)

UpperChars == <<"A","B","C","D","E","F","G","H","I","J","K","L","M",
                "N","O","P","Q","R","S","T","U","V","W","X","Y","Z">>
LowerChars == <<"a","b","c","d","e","f","g","h","i","j","k","l","m",
                "n","o","p","q","r","s","t","u","v","w","x","y","z">>

IsUpper(c) == \E k \in DOMAIN UpperChars : UpperChars[k] = c

\* String.prototype.toLowerCase on one character
LowerChar(c) ==
  IF IsUpper(c)
    THEN LowerChars[CHOOSE k \in DOMAIN UpperChars : UpperChars[k] = c]
    ELSE c

toLowerCase(s) == [k \in 1..Len(s) |-> LowerChar(s[k])]

\* String.prototype.substring(start) with 0-based start
substring(s, start) ==
  IF start >= Len(s) THEN <<>> ELSE SubSeq(s, start + 1, Len(s))

\* /^on[A-Z]/.test(method)
isEventInterceptorMethod(method) ==
  /\ Len(method) >= 3
  /\ method[1] = "o"
  /\ method[2] = "n"
  /\ IsUpper(method[3])

getEventName_KeepCase(methodName) == substring(methodName, 2)

getEventName_LowerFirst(methodName) ==
  [k \in 1..Len(substring(methodName, 2)) |->
     IF k = 1 THEN LowerChar(substring(methodName, 2)[k])
     ELSE substring(methodName, 2)[k]]

\* methodName.substring(2).toLowerCase()
getEventName(methodName) == toLowerCase(substring(methodName, 2))

onClick     == <<"o","n","C","l","i","c","k">>
onDblClick  == <<"o","n","D","b","l","C","l","i","c","k">>
onMouseDown == <<"o","n","M","o","u","s","e","D","o","w","n">>
onclick     == <<"o","n","c","l","i","c","k">>
click       == <<"c","l","i","c","k">>
dblclick    == <<"d","b","l","c","l","i","c","k">>
mousedown   == <<"m","o","u","s","e","d","o","w","n">>
keyup       == <<"k","e","y","u","p">>

-----------------------------------------------------------------------------
(* Values, properties and classes of the host language. *)

Instances == {"i1", "i2"}

Fn(id)    == [kind |-> "fn", id |-> id]          \* a function object
Data(id)  == [kind |-> "data", id |-> id]        \* a value that is not callable
Undefined == [kind |-> "undefined", id |-> ""]

Bind_FirstInstance(target, self, seq) ==
  [kind |-> "bound", target |-> target, self |-> "i1", seq |-> seq]

\* originalHostFn.bind(this): a new function object on every call
Bind(target, self, seq) ==
  [kind |-> "bound", target |-> target, self |-> self, seq |-> seq]

\* typeof v === "function"
IsCallable(v) == v.kind \in {"fn", "bound"}

\* a class member: a method of a prototype, or a field initialised by the constructor
Member(name, value) == [name |-> name, value |-> value]

\* an own property with the attributes wiring reads or sets
Prop(name, value, writable, configurable) ==
  [name |-> name, value |-> value, writable |-> writable,
   configurable |-> configurable]

\* own property names of AutoElement.prototype, none of them handler names
AutoElementProtoNames ==
  << <<"c","o","n","s","t","r","u","c","t","o","r">>,
     <<"c","o","n","n","e","c","t","e","d","C","a","l","l","b","a","c","k">>,
     <<"_","w","i","r","e","A","n","d","L","o","c","k","E","v","e","n","t","s">>,
     <<"_","u","n","w","i","r","e","E","v","e","n","t","s">> >>

\* The implementation classes the factory is given to return.  fields: what the
\* constructor puts on the instance; protos: the methods of the class and of
\* its user-written ancestors, most derived first; connected / disconnected:
\* "inherit" (no override), "callsSuper" (an override that calls
\* super.connectedCallback() once, as in the README) or "noSuper" (an
\* override that does not); baseCallbacks: whether Base has the callbacks.
Class(fields, protos, connected, disconnected, baseCallbacks) ==
  [fields |-> fields, protos |-> protos, connected |-> connected,
   disconnected |-> disconnected, baseCallbacks |-> baseCallbacks]

\* how the class treats connectedCallback and disconnectedCallback
Overrides == {<<"inherit", "inherit">>, <<"callsSuper", "callsSuper">>,
              <<"noSuper", "inherit">>, <<"inherit", "noSuper">>}

ClickLayout     == [fields |-> <<>>,
                    protos |-> << <<Member(onClick, Fn("fA"))>> >>]
CamelLayout     == [fields |-> <<>>,
                    protos |-> << <<Member(onDblClick, Fn("fA")),
                                    Member(onMouseDown, Fn("fB"))>> >>]
InheritedLayout == [fields |-> <<>>,
                    protos |-> << <<Member(onClick, Fn("fA"))>>,
                                  <<Member(onClick, Fn("fB")),
                                    Member(onDblClick, Fn("fC"))>> >>]
NonCallableLayout == [fields |-> <<Member(onDblClick, Data("text"))>>,
                      protos |-> << <<Member(onClick, Fn("fA"))>> >>]
FieldLayout     == [fields |-> <<Member(onClick, Fn("fA"))>>,
                    protos |-> << <<Member(onclick, Fn("fB"))>> >>]
SharedFnLayout  == [fields |-> <<>>,
                    protos |-> << <<Member(onClick, Fn("fA")),
                                    Member(onDblClick, Fn("fA"))>> >>]
EmptyLayout     == [fields |-> <<>>, protos |-> << <<>> >>]
\* a handler that removes its element from the document
RemovingLayout  == [fields |-> <<>>,
                    protos |-> << <<Member(onClick, Fn("fRemove"))>> >>]

Layouts == {ClickLayout, CamelLayout, InheritedLayout, NonCallableLayout,
            FieldLayout, SharedFnLayout, EmptyLayout, RemovingLayout}

Classes ==
  {Class(l.fields, l.protos, "inherit", "inherit", FALSE) : l \in Layouts}
  \cup {Class(ClickLayout.fields, ClickLayout.protos, k[1], k[2], TRUE) :
          k \in Overrides}

RECURSIVE SeqToSet(_)
SeqToSet(s) == IF s = <<>> THEN {} ELSE {Head(s)} \cup SeqToSet(Tail(s))

RECURSIVE Flatten(_)
Flatten(ss) == IF ss = <<>> THEN <<>> ELSE Head(ss) \o Flatten(Tail(ss))

NamesOf(members) == [k \in 1..Len(members) |-> members[k].name]

\* every member name the class declares
ClassNames(c) == SeqToSet(NamesOf(c.fields \o Flatten(c.protos)))

\* every function the class declares, plus the one Assign tries to store
FnIds == {"fA", "fB", "fC", "fNew", "fRemove"}

\* the body of function f calls this.remove(): the element leaves its
\* document and receives the disconnected notification before remove returns
Removes(f) == f = "fRemove"

\* the native event each method name of the EventInterceptors interface is
\* documented to stand for
NativeEvent(name) ==
  CASE name = onClick     -> click
    [] name = onDblClick  -> dblclick
    [] name = onMouseDown -> mousedown
    [] name = onclick     -> click

\* the event types dispatched on an instance of the class: the native events
\* of its member names, and one no member stands for
EventTypes(c) == {NativeEvent(n) : n \in ClassNames(c)} \cup {keyup}

HasProp(props, name) == \E k \in DOMAIN props : props[k].name = name

PropOf(props, name) ==
  props[CHOOSE k \in DOMAIN props : props[k].name = name]

\* this[method]: the own property, else the first prototype that has it
RECURSIVE LookupProtos(_, _)
LookupProtos(protos, name) ==
  IF protos = <<>> THEN Undefined
  ELSE IF HasProp(Head(protos), name) THEN PropOf(Head(protos), name).value
  ELSE LookupProtos(Tail(protos), name)

Get(ownProps, c, name) ==
  IF HasProp(ownProps, name) THEN PropOf(ownProps, name).value
  ELSE LookupProtos(c.protos, name)

-----------------------------------------------------------------------------
(* The host operations wiring uses. *)

\* own property names of the native prototypes below AutoElement: the event
\* handler attributes are spelled in lower case
NativeProtoNames == << onclick >>

RECURSIVE AddMatching_NoDedupe(_, _)
AddMatching_NoDedupe(hostMethods, names) ==
  IF names = <<>> THEN hostMethods
  ELSE LET prop == Head(names) IN
       AddMatching_NoDedupe(
         IF isEventInterceptorMethod(prop)
           THEN Append(hostMethods, prop) ELSE hostMethods,
         Tail(names))

\* hostMethods.add(prop) for every matching prop of one chain level
RECURSIVE AddMatching(_, _)
AddMatching(hostMethods, names) ==
  IF names = <<>> THEN hostMethods
  ELSE LET prop == Head(names) IN
       AddMatching(
         IF isEventInterceptorMethod(prop) /\ prop \notin SeqToSet(hostMethods)
           THEN Append(hostMethods, prop) ELSE hostMethods,
         Tail(names))

RECURSIVE ScanLevels(_, _)
ScanLevels(hostMethods, levels) ==
  IF levels = <<>> THEN hostMethods
  ELSE ScanLevels(AddMatching(hostMethods, Head(levels)), Tail(levels))

\* the walk from the instance up to, not including, Object.prototype; the
\* result is the Set hostMethods in its iteration (insertion) order
HostMethods(ownProps, c) ==
  ScanLevels(<<>>,
             <<NamesOf(ownProps)>>
             \o [k \in 1..Len(c.protos) |-> NamesOf(c.protos[k])]
             \o <<AutoElementProtoNames, NativeProtoNames>>)

LockDescriptor_Writable(originalHostFn, handler) ==
  [value |-> originalHostFn, writable |-> TRUE, configurable |-> TRUE]

LockDescriptor_Bound(originalHostFn, handler) ==
  [value |-> handler, writable |-> FALSE, configurable |-> TRUE]

LockDescriptor_Fixed(originalHostFn, handler) ==
  [value |-> originalHostFn, writable |-> FALSE, configurable |-> FALSE]

\* the descriptor wiring hands to Object.defineProperty
LockDescriptor(originalHostFn, handler) ==
  [value |-> originalHostFn, writable |-> FALSE, configurable |-> TRUE]

\* Object.defineProperty(this, method, desc): redefining a property that is
\* not configurable throws a TypeError; a new property is appended
defineProperty(props, name, desc) ==
  IF HasProp(props, name)
    THEN IF PropOf(props, name).configurable
           THEN [props |-> [k \in 1..Len(props) |->
                              IF props[k].name = name
                                THEN Prop(name, desc.value, desc.writable,
                                          desc.configurable)
                                ELSE props[k]],
                 threw |-> FALSE]
           ELSE [props |-> props, threw |-> TRUE]
    ELSE [props |-> Append(props, Prop(name, desc.value, desc.writable,
                                       desc.configurable)),
          threw |-> FALSE]

\* EventTarget.addEventListener: a (type, callback) pair already in the list
\* is not added again
addEventListener(list, type, callback) ==
  IF \E k \in DOMAIN list : list[k].type = type /\ list[k].callback = callback
    THEN list
    ELSE Append(list, [type |-> type, callback |-> callback])

\* EventTarget.removeEventListener: removes the pair, if it is in the list
removeEventListener(list, type, callback) ==
  SelectSeq(list, LAMBDA l : ~(l.type = type /\ l.callback = callback))

CleanupClosure_Unbound(eventName, handler) ==
  [eventName |-> eventName, handler |-> handler.target]

\* () => { this.removeEventListener(eventName, handler) }
CleanupClosure(eventName, handler) ==
  [eventName |-> eventName, handler |-> handler]

\* calling a function object: a bound function calls its target with the
\* this it was bound to
RECURSIVE Invoke(_, _, _)
Invoke(callback, thisArg, args) ==
  IF callback.kind = "bound"
    THEN Invoke(callback.target, callback.self, args)
    ELSE [fn |-> callback.id, this |-> thisArg, args |-> args]

-----------------------------------------------------------------------------
(* AutoElement._wireAndLockEvents and AutoElement._unwireEvents.  st is     *)
(* the part of the instance the loop changes: own, listeners, cleanupFns,  *)
(* bind (how many bound functions the instance has created), threw, and    *)
(* trace, the calls unwiring has made, in the order it made them.          *)

WireMethod_NoPush(st, self, c, method) ==
  LET eventName == getEventName(method)
      originalHostFn == Get(st.own, c, method)
  IN IF ~IsCallable(originalHostFn) THEN st
     ELSE LET handler == Bind(originalHostFn, self, st.bind + 1)
              locked == defineProperty(st.own, method,
                                       LockDescriptor(originalHostFn, handler))
          IN [st EXCEPT
                !.own = locked.props,
                !.listeners = addEventListener(@, eventName, handler),
                !.bind = @ + 1,
                !.threw = locked.threw]

WireMethod_NoSkip(st, self, c, method) ==
  LET eventName == getEventName(method)
      originalHostFn == Get(st.own, c, method)
  IN IF ~IsCallable(originalHostFn) THEN [st EXCEPT !.threw = TRUE]
     ELSE LET handler == Bind(originalHostFn, self, st.bind + 1)
              locked == defineProperty(st.own, method,
                                       LockDescriptor(originalHostFn, handler))
          IN [st EXCEPT
                !.own = locked.props,
                !.listeners = addEventListener(@, eventName, handler),
                !.cleanupFns = Append(@, CleanupClosure(eventName, handler)),
                !.bind = @ + 1,
                !.threw = locked.threw]

\* one iteration of the for loop over hostMethods
WireMethod(st, self, c, method) ==
  LET eventName == getEventName(method)
      originalHostFn == Get(st.own, c, method)
  IN IF ~IsCallable(originalHostFn) THEN st
     ELSE LET handler == Bind(originalHostFn, self, st.bind + 1)
              locked == defineProperty(st.own, method,
                                       LockDescriptor(originalHostFn, handler))
          IN [st EXCEPT
                !.own = locked.props,
                !.listeners = addEventListener(@, eventName, handler),
                !.cleanupFns = Append(@, CleanupClosure(eventName, handler)),
                !.bind = @ + 1,
                !.threw = locked.threw]

RECURSIVE WireLoop(_, _, _, _)
WireLoop(st, self, c, methods) ==
  IF methods = <<>> \/ st.threw THEN st
  ELSE WireLoop(WireMethod(st, self, c, Head(methods)), self, c, Tail(methods))

wireAndLockEvents_OnceOnly(st, self, c) ==
  IF st.cleanupFns # <<>> THEN st
  ELSE WireLoop(st, self, c, HostMethods(st.own, c))

wireAndLockEvents(st, self, c) ==
  WireLoop(st, self, c, HostMethods(st.own, c))

\* the call of one teardown closure, and the assignment _cleanupFns = []
CleanupCall(cleanup) ==
  [op |-> "cleanup", eventName |-> cleanup.eventName,
   handler |-> cleanup.handler]

ResetCall == [op |-> "reset"]

\* cleanup(): this.removeEventListener(eventName, handler)
RunCleanup(st, cleanup) ==
  [st EXCEPT !.listeners = removeEventListener(@, cleanup.eventName,
                                               cleanup.handler),
             !.trace = Append(@, CleanupCall(cleanup))]

RunCleanups_FirstOnly(st, fns) ==
  IF fns = <<>> THEN st ELSE RunCleanup(st, Head(fns))

RECURSIVE RunCleanups_LastFirst(_, _)
RunCleanups_LastFirst(st, fns) ==
  IF fns = <<>> THEN st
  ELSE RunCleanups_LastFirst(RunCleanup(st, fns[Len(fns)]),
                             SubSeq(fns, 1, Len(fns) - 1))

\* this._cleanupFns.forEach((cleanup) => cleanup())
RECURSIVE RunCleanups(_, _)
RunCleanups(st, fns) ==
  IF fns = <<>> THEN st
  ELSE RunCleanups(RunCleanup(st, Head(fns)), Tail(fns))

unwireEvents_ClearOnly(st) == [st EXCEPT !.cleanupFns = <<>>]

unwireEvents_ThrowsOnEmpty(st) ==
  IF st.cleanupFns = <<>> THEN [st EXCEPT !.threw = TRUE]
  ELSE [RunCleanups(st, st.cleanupFns) EXCEPT
          !.cleanupFns = <<>>, !.trace = Append(@, ResetCall)]

unwireEvents_Unlocks(st) ==
  [RunCleanups(st, st.cleanupFns) EXCEPT
     !.cleanupFns = <<>>, !.trace = Append(@, ResetCall),
     !.own = [k \in DOMAIN @ |-> [@[k] EXCEPT !.writable = TRUE]]]

unwireEvents(st) ==
  [RunCleanups(st, st.cleanupFns) EXCEPT
     !.cleanupFns = <<>>, !.trace = Append(@, ResetCall)]

-----------------------------------------------------------------------------
(* Observation of a run: what was delivered, what ran, what was invoked.   *)

ZeroCounts ==
  [conn |-> 0, disc |-> 0, wire |-> 0, unwire |-> 0, bind |-> 0,
   state |-> "new"]

NoInvocations == [f \in FnIds |-> 0]

CycStart == [n |-> 0, phase |-> 0, inv |-> NoInvocations]
Broken   == [n |-> 0, phase |-> 4, inv |-> NoInvocations]

\* cyc[i][type] watches instance i for the pattern wire, dispatch(type),
\* unwire, dispatch(type), repeated: n is the number of complete cycles,
\* phase the position in the next one and inv[f] the number of times the
\* dispatches of the pattern have invoked function f.  Any other order of
\* these operations, and a handler property given a new value once the
\* pattern has begun, ends the watch (Broken).
CycStep(c, what, times) ==
  LET inv == [f \in FnIds |-> c.inv[f] + times[f]] IN
  IF c.phase = 0 /\ what = "wire" THEN [c EXCEPT !.phase = 1]
  ELSE IF c.phase = 1 /\ what = "dispatch"
    THEN [n |-> c.n, phase |-> 2, inv |-> inv]
  ELSE IF c.phase = 2 /\ what = "unwire" THEN [c EXCEPT !.phase = 3]
  ELSE IF c.phase = 3 /\ what = "dispatch"
    THEN [n |-> c.n + 1, phase |-> 0, inv |-> inv]
  ELSE Broken

Observed(op, inst, name, args, steps, calls, threw, rejected, before) ==
  [op |-> op, inst |-> inst, name |-> name, args |-> args, steps |-> steps,
   calls |-> calls, threw |-> threw, rejected |-> rejected, before |-> before]

State(i) ==
  [own |-> own[i], listeners |-> listeners[i], cleanupFns |-> cleanupFns[i],
   bind |-> counts[i].bind, threw |-> FALSE, trace |-> <<>>]

-----------------------------------------------------------------------------
(* The operations on an instance. *)

LifecycleSteps_CoreFirst(kind, baseCallbacks, core) ==
  (IF kind = "inherit" THEN <<>> ELSE <<"Impl">>)
  \o (IF kind = "noSuper" THEN <<>>
      ELSE <<core>> \o (IF baseCallbacks THEN <<"Base">> ELSE <<>>))

\* the steps a lifecycle notification runs through in the class: the
\* override, if any; then, when AutoElement's callback is reached, Base's
\* callback (super.connectedCallback?.()) and the core operation
LifecycleSteps(kind, baseCallbacks, core) ==
  (IF kind = "inherit" THEN <<>> ELSE <<"Impl">>)
  \o (IF kind = "noSuper" THEN <<>>
      ELSE (IF baseCallbacks THEN <<"Base">> ELSE <<>>) \o <<core>>)

\* the connected notification: Impl.connectedCallback, which is
\* AutoElement.connectedCallback unless the class overrides it
connectedCallback(i) ==
  /\ counts[i].conn < MaxConnects
  /\ LET steps == LifecycleSteps(cls.connected, cls.baseCallbacks, "wire")
         runs == Len(SelectSeq(steps, LAMBDA x : x = "wire"))
         st == IF runs = 0 THEN State(i) ELSE wireAndLockEvents(State(i), i, cls)
     IN /\ own' = [own EXCEPT ![i] = st.own]
        /\ listeners' = [listeners EXCEPT ![i] = st.listeners]
        /\ cleanupFns' = [cleanupFns EXCEPT ![i] = st.cleanupFns]
        /\ counts' = [counts EXCEPT ![i].conn = @ + 1, ![i].wire = @ + runs,
                                    ![i].bind = st.bind,
                                    ![i].state = IF runs = 0 THEN @ ELSE "wired"]
        /\ cyc' = IF runs = 0 THEN cyc
                  ELSE [cyc EXCEPT ![i] =
                          [t \in DOMAIN @ |-> CycStep(@[t], "wire", NoInvocations)]]
        /\ last' = Observed("connect", i, <<>>, <<>>, steps, <<>>, st.threw,
                            FALSE, Undefined)
  /\ UNCHANGED <<cls, live>>

\* the disconnected notification
disconnectedCallback(i) ==
  /\ counts[i].disc < MaxDisconnects
  /\ LET steps == LifecycleSteps(cls.disconnected, cls.baseCallbacks, "unwire")
         runs == Len(SelectSeq(steps, LAMBDA x : x = "unwire"))
         st == IF runs = 0 THEN State(i) ELSE unwireEvents(State(i))
     IN /\ own' = [own EXCEPT ![i] = st.own]
        /\ listeners' = [listeners EXCEPT ![i] = st.listeners]
        /\ cleanupFns' = [cleanupFns EXCEPT ![i] = st.cleanupFns]
        /\ counts' = [counts EXCEPT ![i].disc = @ + 1, ![i].unwire = @ + runs,
                                    ![i].state =
                                      IF runs = 0 THEN @ ELSE "unwired"]
        /\ cyc' = IF runs = 0 THEN cyc
                  ELSE [cyc EXCEPT ![i] =
                          [t \in DOMAIN @ |-> CycStep(@[t], "unwire", NoInvocations)]]
        /\ last' = Observed("disconnect", i, <<>>, <<>>, steps, st.trace,
                            st.threw, FALSE, Undefined)
  /\ UNCHANGED <<cls, live>>

attributeChangedCallback_Rewires(i, name, oldValue, newValue) ==
  /\ LET st == wireAndLockEvents(State(i), i, cls)
     IN /\ own' = [own EXCEPT ![i] = st.own]
        /\ listeners' = [listeners EXCEPT ![i] = st.listeners]
        /\ cleanupFns' = [cleanupFns EXCEPT ![i] = st.cleanupFns]
  /\ last' = Observed("attr", i, <<>>, <<name, oldValue, newValue>>,
                      IF cls.baseCallbacks
                        THEN << <<"Base", name, oldValue, newValue>> >>
                        ELSE <<>>,
                      <<>>, FALSE, FALSE, Undefined)
  /\ UNCHANGED <<cls, live, counts, cyc>>

\* AutoElement.attributeChangedCallback(name, oldValue, newValue)
attributeChangedCallback(i, name, oldValue, newValue) ==
  /\ last' = Observed("attr", i, <<>>, <<name, oldValue, newValue>>,
                      IF cls.baseCallbacks
                        THEN << <<"Base", name, oldValue, newValue>> >>
                        ELSE <<>>,
                      <<>>, FALSE, FALSE, Undefined)
  /\ UNCHANGED <<cls, live, own, listeners, cleanupFns, counts, cyc>>

\* a dispatch that has called no listener yet
BeginDispatch(st) ==
  [st |-> st, calls |-> <<>>, steps |-> <<>>, discs |-> 0, unwires |-> 0]

\* a listener of the dispatch's list that has been removed since the
\* dispatch began is not invoked
Removed(d, listener) == listener \notin SeqToSet(d.st.listeners)

\* the listeners of the event's type, as the list was when the dispatch
\* began, are called one after the other with the event; the disconnected
\* notification a handler causes runs inside its call.  d is the dispatch
\* so far: the instance, the calls made, the steps taken
RECURSIVE InvokeListeners(_, _, _, _)
InvokeListeners(d, c, event, pending) ==
  IF pending = <<>> THEN d
  ELSE IF Removed(d, Head(pending))
    THEN InvokeListeners([d EXCEPT !.steps = Append(@, "skip")], c, event,
                         Tail(pending))
  ELSE LET call == Invoke(Head(pending).callback, event.target, <<event>>)
           nested == IF Removes(call.fn)
                       THEN LifecycleSteps(c.disconnected, c.baseCallbacks,
                                           "unwire")
                       ELSE <<>>
           runs == Len(SelectSeq(nested, LAMBDA x : x = "unwire"))
       IN InvokeListeners(
            [st |-> IF runs = 0 THEN d.st ELSE unwireEvents(d.st),
             calls |-> Append(d.calls, call),
             steps |-> d.steps \o <<"call">> \o nested \o <<"return">>,
             discs |-> d.discs + (IF Removes(call.fn) THEN 1 ELSE 0),
             unwires |-> d.unwires + runs],
            c, event, Tail(pending))

\* i.dispatchEvent(event), event a new Event(type): every listener of the
\* type is called, in the order of the list, with the event as its argument
dispatchEvent(i, type, id) ==
  /\ LET event == [type |-> type, id |-> id, target |-> i]
         hit == SelectSeq(listeners[i], LAMBDA l : l.type = type)
         d == InvokeListeners(BeginDispatch(State(i)), cls, event, hit)
         times == [f \in FnIds |->
                     Cardinality({k \in 1..Len(d.calls) : d.calls[k].fn = f})]
     IN /\ counts[i].disc + d.discs <= MaxDisconnects
        /\ own' = [own EXCEPT ![i] = d.st.own]
        /\ listeners' = [listeners EXCEPT ![i] = d.st.listeners]
        /\ cleanupFns' = [cleanupFns EXCEPT ![i] = d.st.cleanupFns]
        /\ counts' = [counts EXCEPT ![i].disc = @ + d.discs,
                                    ![i].unwire = @ + d.unwires,
                                    ![i].state = IF d.unwires = 0 THEN @
                                                 ELSE "unwired"]
        /\ cyc' = [cyc EXCEPT ![i] =
                     [t \in DOMAIN @ |->
                        LET c1 == IF t = type
                                    THEN CycStep(@[t], "dispatch", times)
                                    ELSE @[t]
                        IN IF d.unwires = 0 THEN c1
                           ELSE CycStep(c1, "unwire", NoInvocations)]]
        /\ last' = Observed("dispatch", i, type, <<event>>, d.steps, d.calls,
                            FALSE, FALSE, Undefined)
  /\ UNCHANGED <<cls, live>>

\* i[name] = value, by code that is in strict mode or not: a write to a
\* property that is not writable is rejected, with a TypeError in strict mode
\* and silently otherwise; a write through to a prototype's method creates
\* an own property
Assign(i, name, value, strict) ==
  /\ LET has == HasProp(own[i], name)
         rejected == has /\ ~PropOf(own[i], name).writable
     IN /\ own' = [own EXCEPT ![i] =
                     IF rejected THEN @
                     ELSE IF has
                       THEN [k \in 1..Len(@) |->
                               IF @[k].name = name
                                 THEN [@[k] EXCEPT !.value = value] ELSE @[k]]
                       ELSE Append(@, Prop(name, value, TRUE, TRUE))]
        /\ cyc' = IF rejected THEN cyc
                  ELSE [cyc EXCEPT ![i] =
                          [t \in DOMAIN @ |->
                             IF @[t] = CycStart THEN @[t] ELSE Broken]]
        /\ last' = Observed("assign", i, name, <<value, strict>>, <<>>, <<>>,
                            rejected /\ strict, rejected,
                            Get(own[i], cls, name))
  /\ UNCHANGED <<cls, live, listeners, cleanupFns, counts>>

-----------------------------------------------------------------------------
(* Construction of the instances. *)

\* the instance the constructor returns: the class's fields as own
\* properties, _cleanupFns = []
Constructed(c) ==
  [k \in 1..Len(c.fields) |->
     Prop(c.fields[k].name, c.fields[k].value, TRUE, TRUE)]

InitWiring(classes, instances) ==
  /\ cls \in classes
  /\ live = instances
  /\ own = [i \in Instances |-> Constructed(cls)]
  /\ listeners = [i \in Instances |-> <<>>]
  /\ cleanupFns = [i \in Instances |-> <<>>]
  /\ counts = [i \in Instances |-> ZeroCounts]
  /\ cyc = [i \in Instances |-> [t \in EventTypes(cls) |-> CycStart]]
  /\ last = Observed("new", "i1", <<>>, <<>>, <<>>, <<>>, FALSE, FALSE,
                     Undefined)

EventIds   == {"e1", "e2"}
AttrNames  == {"test-attr"}
AttrValues == {"null", "value1"}

-----------------------------------------------------------------------------
(* defineAutoWebComponent and the custom element registry. *)

Tags == {"attr-element", "test-element", "element"}

\* a valid custom element name contains a hyphen
ValidCustomElementName(tagName) == tagName \in {"attr-element", "test-element"}

\* what the class the factory returns declares as static observedAttributes:
\* nothing, a static field, or a static getter without a setter
Declarations ==
  {[kind |-> "none", attrs |-> <<>>],
   [kind |-> "field", attrs |-> <<"own">>],
   [kind |-> "getter", attrs |-> <<"own">>]}

\* the options argument: observedAttributes absent, or a list
Options ==
  {[has |-> FALSE, observedAttributes |-> <<>>],
   [has |-> TRUE, observedAttributes |-> <<>>],
   [has |-> TRUE, observedAttributes |-> <<"foo", "bar">>],
   [has |-> TRUE, observedAttributes |-> <<"bar", "foo">>]}

NoOptions == [has |-> FALSE, observedAttributes |-> <<>>]

\* customElements.get(tagName) of a tag nothing is registered under
NoClass == [id |-> 0, declared |-> [kind |-> "none", attrs |-> <<>>],
            observedAttributes |-> [kind |-> "none", attrs |-> <<>>],
            options |-> NoOptions]

ZeroLog == [calls |-> 0, warnings |-> 0, defines |-> 0, outcome |-> "none",
            tagName |-> ""]

SetObservedAttributes_KeepDeclared(declared, options) ==
  IF declared.kind = "none"
    THEN [kind |-> "field", attrs |-> options.observedAttributes]
    ELSE declared

\* ImplementationClass.observedAttributes = options.observedAttributes
SetObservedAttributes(declared, options) ==
  [kind |-> "field", attrs |-> options.observedAttributes]

AlreadyRegistered_Never(tagName) == FALSE

\* customElements.get(tagName), as a condition
AlreadyRegistered(tagName) == registry[tagName] # NoClass

\* customElements.define(tagName, ...) throws for a name that is not a valid
\* custom element name and for a name that is already defined
DefineThrows(tagName) ==
  ~ValidCustomElementName(tagName) \/ registry[tagName] # NoClass

\* defineAutoWebComponent(tagName, extendsTag, factory, options), factory
\* returning a new class with the given declaration.  The assignment to a
\* static getter without a setter throws (module code is strict).
defineAutoWebComponent(tagName, declared, options) ==
  /\ regLog.calls < MaxDefines
  /\ LET id == regLog.calls + 1
         log(outcome, warned, defined) ==
           [calls |-> id, warnings |-> regLog.warnings + warned,
            defines |-> regLog.defines + defined, outcome |-> outcome,
            tagName |-> tagName]
     IN IF AlreadyRegistered(tagName)
          THEN /\ regLog' = log("warned", 1, 0)
               /\ UNCHANGED registry
        ELSE IF options.has /\ declared.kind = "getter"
          THEN /\ regLog' = log("threw", 0, 0)
               /\ UNCHANGED registry
        ELSE IF DefineThrows(tagName)
          THEN /\ regLog' = log("threw", 0, 1)
               /\ UNCHANGED registry
        ELSE /\ regLog' = log("defined", 0, 1)
             /\ registry' =
                  [registry EXCEPT ![tagName] =
                     [id |-> id,
                      declared |-> declared,
                      observedAttributes |->
                        IF options.has
                          THEN SetObservedAttributes(declared, options)
                          ELSE declared,
                      options |-> options]]

RegIdle == registry = [t \in Tags |-> NoClass] /\ regLog = ZeroLog

NextReg ==
  \E t \in Tags, d \in Declarations, o \in Options :
    defineAutoWebComponent(t, d, o)

-----------------------------------------------------------------------------
(* The name convention applied to a name. *)

NameAlphabet == {"o", "n", "C", "c", "D", "1"}

RECURSIVE NamesUpTo(_)
NamesUpTo(n) ==
  IF n = 0 THEN {<<>>}
  ELSE LET shorter == NamesUpTo(n - 1) IN
       shorter \cup {Append(s, c) : s \in shorter, c \in NameAlphabet}

MethodNames ==
  NamesUpTo(MaxNameLen) \cup {onClick, onDblClick, onMouseDown, onclick}

NotConverted == [done |-> FALSE, matches |-> FALSE, eventName |-> <<>>]

NameIdle == nameIn = <<>> /\ nameOut = NotConverted

\* isEventInterceptorMethod(nameIn) and getEventName(nameIn)
Convert ==
  /\ ~nameOut.done
  /\ nameOut' = [done |-> TRUE, matches |-> isEventInterceptorMethod(nameIn),
                 eventName |-> getEventName(nameIn)]
  /\ UNCHANGED nameIn

-----------------------------------------------------------------------------
(* Specifications. *)

WiringIdle ==
  InitWiring({Class(EmptyLayout.fields, EmptyLayout.protos, "inherit",
                    "inherit", FALSE)}, {})

\* instances of one implementation class
Init == InitWiring(Classes, {"i1"}) /\ RegIdle /\ NameIdle

Next ==
  \/ \E i \in live :
       connectedCallback(i) /\ UNCHANGED <<regVars, nameVars>>
  \/ \E i \in live :
       disconnectedCallback(i) /\ UNCHANGED <<regVars, nameVars>>
  \/ \E i \in live, t \in EventTypes(cls), e \in EventIds :
       dispatchEvent(i, t, e) /\ UNCHANGED <<regVars, nameVars>>
  \/ \E i \in live, n \in ClassNames(cls), strict \in BOOLEAN :
       Assign(i, n, Fn("fNew"), strict) /\ UNCHANGED <<regVars, nameVars>>
  \/ \E i \in live, n \in AttrNames, o \in AttrValues :
       \E v \in AttrValues \ {o} :
         attributeChangedCallback(i, n, o, v)
         /\ UNCHANGED <<regVars, nameVars>>

Spec == Init /\ [][Next]_vars

\* two instances of one implementation class
PairClasses ==
  {Class(ClickLayout.fields, ClickLayout.protos, "inherit", "inherit", FALSE)}

InitPair == InitWiring(PairClasses, {"i1", "i2"}) /\ RegIdle /\ NameIdle

\* the lifecycle notifications the two instances have received
PairLifecycle ==
  counts["i1"].conn + counts["i1"].disc + counts["i2"].conn + counts["i2"].disc

NextPair ==
  \/ \E i \in live :
       /\ PairLifecycle < MaxPairLifecycle
       /\ connectedCallback(i) /\ UNCHANGED <<regVars, nameVars>>
  \/ \E i \in live :
       /\ PairLifecycle < MaxPairLifecycle
       /\ disconnectedCallback(i) /\ UNCHANGED <<regVars, nameVars>>
  \/ \E i \in live, t \in EventTypes(cls), e \in EventIds :
       dispatchEvent(i, t, e) /\ UNCHANGED <<regVars, nameVars>>
  \/ \E i \in live, n \in ClassNames(cls), strict \in BOOLEAN :
       Assign(i, n, Fn("fNew"), strict) /\ UNCHANGED <<regVars, nameVars>>
  \/ \E i \in live, n \in AttrNames, o \in AttrValues :
       \E v \in AttrValues \ {o} :
         attributeChangedCallback(i, n, o, v)
         /\ UNCHANGED <<regVars, nameVars>>

SpecPair == InitPair /\ [][NextPair]_vars

\* the registration surface
InitReg == WiringIdle /\ RegIdle /\ NameIdle

SpecReg == InitReg /\ [][NextReg /\ UNCHANGED <<wiringVars, nameVars>>]_vars

\* the name convention
InitName == WiringIdle /\ RegIdle /\ nameIn \in MethodNames
            /\ nameOut = NotConverted

SpecName == InitName /\ [][Convert /\ UNCHANGED <<wiringVars, regVars>>]_vars

-----------------------------------------------------------------------------
(* Properties of wiring. *)

\* the handler names of instance i: the scanned names whose value, read
\* through the instance, is callable
Handlers(i) ==
  {H \in SeqToSet(HostMethods(own[i], cls)) : IsCallable(Get(own[i], cls, H))}

\* the handler names of i whose value an assignment cannot have changed
\* since wire(I) last ran: those not held in a writable own property
Settled(i) ==
  {H \in Handlers(i) :
     HasProp(own[i], H) => ~PropOf(own[i], H).writable}

\* the own properties of i that wiring has locked
Locked(i) == {k \in DOMAIN own[i] : ~own[i][k].writable}

\* wire(I) has registered function v, bound to i, as the listener of the
\* event that handler name H stands for
Wired(i, H, v) ==
  isEventInterceptorMethod(H) /\ \E l \in DOMAIN listeners[i] :
    /\ listeners[i][l].type = NativeEvent(H)
    /\ listeners[i][l].callback = Bind(v, i, listeners[i][l].callback.seq)

TimesCalled(calls, f) == Cardinality({k \in DOMAIN calls : calls[k].fn = f})

\* C1: after a single wire(I), one dispatch of the event a handler name H
\* stands for invokes the handler exactly once, with the dispatched event as
\* its only argument.
C1_DispatchInvokesHandlerOnce ==
  \A i \in live :
    (last.op = "dispatch" /\ last.inst = i
     /\ counts[i].wire = 1 /\ counts[i].unwire = 0)
    => \A H \in Settled(i) :
         NativeEvent(H) = last.name
         => /\ TimesCalled(last.calls, Get(own[i], cls, H).id) = 1
            /\ \A k \in DOMAIN last.calls :
                 last.calls[k].fn = Get(own[i], cls, H).id
                 => last.calls[k].args = last.args

C1_Witness ==
  /\ last.op = "dispatch" /\ last.inst = "i1"
  /\ counts["i1"].wire = 1 /\ counts["i1"].unwire = 0
  /\ onDblClick \in Settled("i1") /\ last.name = dblclick
  /\ Len(last.calls) = 1

\* C2: after wire(I) followed by unwire(I), a dispatch of any event on I
\* invokes no handler (a dispatch during which unwire(I) ran began before
\* it).
C2_NoInvocationAfterUnwire ==
  \A i \in live :
    (last.op = "dispatch" /\ last.inst = i /\ counts[i].state = "unwired"
     /\ "unwire" \notin SeqToSet(last.steps))
    => last.calls = <<>>

C2_Witness ==
  /\ last.op = "dispatch" /\ last.inst = "i1"
  /\ counts["i1"].state = "unwired" /\ counts["i1"].wire >= 1
  /\ \E H \in Handlers("i1") :
       NativeEvent(H) = last.name /\ HasProp(own["i1"], H)

\* C3: after N strictly alternating cycles connect, dispatch, disconnect,
\* dispatch on I, a handler H has been invoked exactly N times (and once more
\* than that between the first dispatch of a cycle and its end).
C3_OneInvocationPerCycle ==
  \A i \in live : \A t \in DOMAIN cyc[i] :
    cyc[i][t].phase \in 0..3
    => \A H \in Settled(i) :
         NativeEvent(H) = t
         => cyc[i][t].inv[Get(own[i], cls, H).id]
              = cyc[i][t].n + (IF cyc[i][t].phase \in {2, 3} THEN 1 ELSE 0)

C3_Witness ==
  /\ click \in DOMAIN cyc["i1"]
  /\ cyc["i1"][click].n = 2 /\ cyc["i1"][click].phase = 0
  /\ \E k \in Locked("i1") :
       own["i1"][k].name = onClick
       /\ cyc["i1"][click].inv[own["i1"][k].value.id] = 2

\* C4 as claimed: after wire(I), an assignment to I's handler property H
\* fails with an error and leaves the value read from I.H unchanged.
C4_AssignmentAlwaysThrows ==
  \A i \in live :
    (last.op = "assign" /\ last.inst = i /\ Wired(i, last.name, last.before))
    => last.threw /\ Get(own[i], cls, last.name) = last.before

\* C4 as amended: after wire(I), an assignment to I's handler property H is
\* rejected and leaves the value read from I.H unchanged; the rejection is an
\* error exactly when the assigning code is in strict mode.
C4_AssignmentRejected ==
  \A i \in live :
    (last.op = "assign" /\ last.inst = i /\ Wired(i, last.name, last.before))
    => /\ last.rejected
       /\ Get(own[i], cls, last.name) = last.before
       /\ last.threw <=> last.args[2]

C4_Witness ==
  /\ last.op = "assign" /\ last.inst = "i1"
  /\ Wired("i1", last.name, last.before)
  /\ last.threw /\ counts["i1"].state = "wired"

OnceAfterBase(steps, core) ==
  /\ Len(SelectSeq(steps, LAMBDA x : x = core)) = 1
  /\ \A a, b \in DOMAIN steps : (steps[a] = "Base" /\ steps[b] = core) => a < b

\* C6 as claimed: every connected notification runs wire(I) exactly once and
\* every disconnected notification runs unwire(I) exactly once, after Base's
\* callback, whatever class the factory returned.
C6_EveryNotificationRunsCore ==
  /\ last.op = "connect" => OnceAfterBase(last.steps, "wire")
  /\ last.op = "disconnect" => OnceAfterBase(last.steps, "unwire")
  /\ \A i \in live : /\ counts[i].wire = counts[i].conn
                     /\ counts[i].unwire = counts[i].disc

\* C6 as amended: the same, for a class that does not override the callback
\* or whose override calls the inherited callback once.
C6_NotificationRunsCoreUnlessOverridden ==
  /\ (last.op = "connect" /\ cls.connected # "noSuper")
     => /\ OnceAfterBase(last.steps, "wire")
        /\ cls.baseCallbacks => \E a \in DOMAIN last.steps : last.steps[a] = "Base"
  /\ (last.op = "disconnect" /\ cls.disconnected # "noSuper")
     => /\ OnceAfterBase(last.steps, "unwire")
        /\ cls.baseCallbacks => \E a \in DOMAIN last.steps : last.steps[a] = "Base"
  /\ \A i \in live :
       /\ cls.connected # "noSuper" => counts[i].wire = counts[i].conn
       /\ cls.disconnected # "noSuper" => counts[i].unwire = counts[i].disc

C6_Witness ==
  /\ last.op = "disconnect" /\ cls.baseCallbacks
  /\ cls.connected = "callsSuper" /\ cls.disconnected = "callsSuper"
  /\ counts["i1"].wire = 2 /\ counts["i1"].unwire = 2

\* C9: an attribute-change notification is forwarded to Base's callback with
\* its three values and leaves the own properties, the listeners and the
\* cleanup registry of the instance as they were.
C9_AttributeChangeForwardedOnly ==
  [][last'.op = "attr"
     => /\ own' = own /\ listeners' = listeners /\ cleanupFns' = cleanupFns
        /\ cls.baseCallbacks
           => last'.steps = << <<"Base">> \o last'.args >>
        /\ ~cls.baseCallbacks => last'.steps = <<>>]_vars

C9_Witness ==
  /\ last.op = "attr" /\ cls.baseCallbacks
  /\ last.steps = << <<"Base", "test-attr", "null", "value1">> >>
  /\ counts["i1"].state = "wired" /\ cleanupFns["i1"] # <<>>
  /\ Locked("i1") # {}

\* C10 as claimed: after wire(I), the value of I's own property H is the bound
\* function wire registered as the listener of H's event.
C10_PropertyHoldsBoundFunction ==
  \A i \in live :
    counts[i].state = "wired"
    => \A k \in Locked(i) :
         \E l \in DOMAIN listeners[i] :
           /\ listeners[i][l].type = NativeEvent(own[i][k].name)
           /\ listeners[i][l].callback = own[i][k].value

\* C10 as amended: after wire(I), the value of I's own property H is the
\* function read through I before binding; the listener wire registered for
\* H's event is a bound function of it, a different object.
C10_PropertyHoldsUnboundFunction ==
  \A i \in live :
    counts[i].state = "wired"
    => \A k \in Locked(i) :
         /\ \E l \in DOMAIN listeners[i] :
              /\ listeners[i][l].type = NativeEvent(own[i][k].name)
              /\ listeners[i][l].callback.kind = "bound"
              /\ listeners[i][l].callback.self = i
              /\ listeners[i][l].callback.target = own[i][k].value
         /\ \A l \in DOMAIN listeners[i] :
              listeners[i][l].callback # own[i][k].value

C10_Witness ==
  /\ counts["i1"].state = "wired" /\ counts["i1"].wire = 2
  /\ \E k \in Locked("i1") : own["i1"][k].value = Fn("fA")

-----------------------------------------------------------------------------
(* Properties of the cleanup registry and of repeated wiring. *)

\* the (eventName, handler) pair a listener of the instance is registered as
PairOf(l) == [eventName |-> l.type, handler |-> l.callback]

\* C11: in every state the listeners of an instance and the closures of its
\* cleanup registry correspond one-to-one, in the order wiring added them:
\* the k-th closure removes the pair of the k-th listener, a bound function
\* of the instance; no pair occurs twice; and when unwire(I) has returned the
\* registry is empty and no listener is attached.
C11_ListenersMatchRegistry ==
  \A i \in live :
    /\ Len(listeners[i]) = Len(cleanupFns[i])
    /\ \A k \in DOMAIN cleanupFns[i] :
         /\ cleanupFns[i][k] = PairOf(listeners[i][k])
         /\ cleanupFns[i][k].handler.kind = "bound"
         /\ cleanupFns[i][k].handler.self = i
    /\ \A k, m \in DOMAIN listeners[i] :
         listeners[i][k] = listeners[i][m] => k = m
    /\ counts[i].state = "unwired"
       => listeners[i] = <<>> /\ cleanupFns[i] = <<>>

C11_Witness ==
  /\ counts["i1"].wire = 2 /\ counts["i1"].unwire = 1
  /\ counts["i1"].state = "wired"
  /\ Len(cleanupFns["i1"]) = 4
  /\ \A k \in 1..4 : cleanupFns["i1"][k] = PairOf(listeners["i1"][k])

\* the steps of a dispatch after its step p
After(steps, p) == SubSeq(steps, p + 1, Len(steps))

\* C12: when unwire(I) runs inside a handler's invocation during a dispatch
\* on I, that invocation returns, and after unwire(I) no listener is called
\* any more: the listeners still pending for the dispatch are skipped and I
\* has no listener left.
C12_NoInvocationAfterNestedUnwire ==
  \A i \in live :
    (last.op = "dispatch" /\ last.inst = i)
    => /\ Len(SelectSeq(last.steps, LAMBDA x : x = "call")) = Len(last.calls)
       /\ \A p \in DOMAIN last.steps :
            last.steps[p] = "unwire"
            => /\ p > 1 /\ last.steps[p - 1] \in {"call", "Base", "Impl"}
               /\ p < Len(last.steps) /\ last.steps[p + 1] = "return"
               /\ "call" \notin SeqToSet(After(last.steps, p))
               /\ listeners[i] = <<>> /\ cleanupFns[i] = <<>>

C12_Witness ==
  /\ last.op = "dispatch" /\ last.inst = "i1"
  /\ last.steps = <<"call", "unwire", "return", "skip">>
  /\ Len(last.calls) = 1 /\ Removes(last.calls[1].fn)
  /\ counts["i1"].state = "unwired"

\* a step in which wire(I) ran for instance i
WireStep(i) ==
  last'.op = "connect" /\ last'.inst = i /\ "wire" \in SeqToSet(last'.steps)

\* the listeners the step added to instance i
AddedListeners(i) ==
  SubSeq(listeners'[i], Len(listeners[i]) + 1, Len(listeners'[i]))

\* the listeners among list that call function v bound to i for the event
\* handler name H stands for
ListenersOf(list, i, H, v) ==
  {k \in DOMAIN list :
     /\ list[k].type = NativeEvent(H)
     /\ list[k].callback.kind = "bound"
     /\ list[k].callback.self = i
     /\ list[k].callback.target = v}

\* C13: wire(I) adds exactly one listener per handler name, however many
\* levels of the chain (the instance's own locked property included) define
\* the name, and the listener calls the value read through I when wire ran.
C13_OneListenerPerName ==
  [][\A i \in live :
       WireStep(i)
       => /\ SubSeq(listeners'[i], 1, Len(listeners[i])) = listeners[i]
          /\ Len(AddedListeners(i)) = Cardinality(Handlers(i))
          /\ \A H \in Handlers(i) :
               Cardinality(ListenersOf(AddedListeners(i), i, H,
                                       Get(own[i], cls, H))) = 1]_vars

C13_Witness ==
  /\ last.op = "connect" /\ cls.protos = InheritedLayout.protos
  /\ counts["i1"].wire = 2 /\ counts["i1"].unwire = 1
  /\ HasProp(own["i1"], onClick) /\ Len(listeners["i1"]) = 2
  /\ ListenersOf(listeners["i1"], "i1", onClick, Fn("fA")) # {}
  /\ ListenersOf(listeners["i1"], "i1", onClick, Fn("fB")) = {}

\* the scanned names of instance i whose value read through i is not callable
NonCallables(i) ==
  {H \in SeqToSet(HostMethods(own[i], cls)) : ~IsCallable(Get(own[i], cls, H))}

\* the closures the step appended to the cleanup registry of instance i
AddedCleanups(i) ==
  SubSeq(cleanupFns'[i], Len(cleanupFns[i]) + 1, Len(cleanupFns'[i]))

\* C14: for a scanned name whose value is not callable, wire(I) raises no
\* error, adds no listener and no teardown closure for the name's event and
\* leaves the property as it was (not locked, so still assignable); the
\* callable names are wired all the same.
C14_NonCallableSkipped ==
  [][\A i \in live :
       (WireStep(i) /\ NonCallables(i) # {})
       => /\ ~last'.threw
          /\ \A H \in NonCallables(i) :
               /\ \A k \in DOMAIN AddedListeners(i) :
                    AddedListeners(i)[k].type # getEventName(H)
               /\ \A k \in DOMAIN AddedCleanups(i) :
                    AddedCleanups(i)[k].eventName # getEventName(H)
               /\ HasProp(own'[i], H) <=> HasProp(own[i], H)
               /\ HasProp(own[i], H)
                  => /\ PropOf(own'[i], H) = PropOf(own[i], H)
                     /\ PropOf(own'[i], H).writable
          /\ \A H \in Handlers(i) :
               ListenersOf(AddedListeners(i), i, H, Get(own[i], cls, H)) # {}]_vars

C14_Witness ==
  /\ last.op = "connect" /\ ~last.threw /\ counts["i1"].wire = 1
  /\ HasProp(own["i1"], onDblClick)
  /\ PropOf(own["i1"], onDblClick) = Prop(onDblClick, Data("text"), TRUE, TRUE)
  /\ Len(listeners["i1"]) = 1 /\ Len(cleanupFns["i1"]) = 1
  /\ ListenersOf(listeners["i1"], "i1", onClick, Fn("fA")) # {}

\* C15: wire(I) on an instance with handler properties an earlier wire(I)
\* locked raises no error; each such property is redefined with the same
\* value and is still not writable, and a listener that was not attached
\* before, a new bound function of that value, is attached for it.
C15_RewireOfLockedSucceeds ==
  [][\A i \in live :
       (WireStep(i) /\ Locked(i) # {})
       => /\ ~last'.threw
          /\ \A k \in Locked(i) :
               LET H == own[i][k].name IN
               /\ HasProp(own'[i], H)
               /\ ~PropOf(own'[i], H).writable
               /\ PropOf(own'[i], H).value = own[i][k].value
               /\ \E a \in ListenersOf(AddedListeners(i), i, H, own[i][k].value) :
                    \A l \in DOMAIN listeners[i] :
                      listeners[i][l].callback # AddedListeners(i)[a].callback]_vars

C15_Witness ==
  /\ last.op = "connect" /\ ~last.threw
  /\ counts["i1"].wire = 2 /\ counts["i1"].unwire = 1
  /\ Cardinality(Locked("i1")) = 2 /\ Len(listeners["i1"]) = 2
  /\ \A k \in Locked("i1") :
       \E l \in ListenersOf(listeners["i1"], "i1", own["i1"][k].name,
                             own["i1"][k].value) :
         listeners["i1"][l].callback.seq > 2

\* the handler names of i whose value is the one its class gave it
ClassHandlers(i) ==
  {H \in Handlers(i) : Get(own[i], cls, H) = Get(Constructed(cls), cls, H)}

\* C16: after two wire(I) with no unwire(I) before or between them, every
\* handler of the class has two listeners and a dispatch of its event
\* invokes it twice; after one unwire(I) following them I has no listener
\* and a dispatch invokes nothing.
C16_SecondWireAttachesAgain ==
  \A i \in live :
    /\ (counts[i].wire = 2 /\ counts[i].unwire = 0)
       => \A H \in ClassHandlers(i) :
            /\ Cardinality(ListenersOf(listeners[i], i, H,
                                       Get(own[i], cls, H))) = 2
            /\ (last.op = "dispatch" /\ last.inst = i
                /\ last.name = NativeEvent(H))
               => TimesCalled(last.calls, Get(own[i], cls, H).id) = 2
    /\ (counts[i].wire = 2 /\ counts[i].unwire = 1
        /\ counts[i].state = "unwired")
       => /\ listeners[i] = <<>>
          /\ (last.op = "dispatch" /\ last.inst = i
              /\ "unwire" \notin SeqToSet(last.steps))
             => last.calls = <<>>

C16_Witness ==
  /\ last.op = "dispatch" /\ last.inst = "i1" /\ last.name = click
  /\ counts["i1"].wire = 2 /\ counts["i1"].unwire = 0
  /\ onClick \in ClassHandlers("i1")
  /\ Len(last.calls) = 2
  /\ \A k \in 1..2 : last.calls[k].fn = "fA" /\ last.calls[k].this = "i1"

\* a step in which unwire(I) ran for instance i on a disconnected
\* notification
UnwireStep(i) ==
  /\ last'.op = "disconnect" /\ last'.inst = i
  /\ "unwire" \in SeqToSet(last'.steps)

\* C17: unwire(I) on an instance whose cleanup registry is empty raises no
\* error, calls no teardown closure, and leaves the listeners, the (empty)
\* registry and the own properties of I as they were.
C17_UnwireOfEmptyRegistryIsNoOp ==
  [][\A i \in live :
       (UnwireStep(i) /\ cleanupFns[i] = <<>>)
       => /\ ~last'.threw
          /\ last'.calls = <<ResetCall>>
          /\ listeners'[i] = listeners[i]
          /\ cleanupFns'[i] = <<>>
          /\ own'[i] = own[i]]_vars

C17_Witness ==
  /\ last.op = "disconnect" /\ ~last.threw /\ last.calls = <<ResetCall>>
  /\ counts["i1"].wire = 1 /\ counts["i1"].unwire = 2
  /\ Locked("i1") # {}
  /\ listeners["i1"] = <<>> /\ cleanupFns["i1"] = <<>>

\* C19: unwire(I) calls the teardown closures of the registry one by one in
\* the order of the registry, which is the order wire appended them (the
\* order in which their handlers were bound), each once, and empties the
\* registry after the last call.
C19_CleanupsRunInAppendOrder ==
  [][\A i \in live :
       UnwireStep(i)
       => /\ \A k, m \in DOMAIN cleanupFns[i] :
               k < m => cleanupFns[i][k].handler.seq < cleanupFns[i][m].handler.seq
          /\ last'.calls =
               [k \in 1..Len(cleanupFns[i]) |-> CleanupCall(cleanupFns[i][k])]
                 \o <<ResetCall>>
          /\ cleanupFns'[i] = <<>>]_vars

C19_Witness ==
  /\ last.op = "disconnect" /\ Len(last.calls) = 3
  /\ last.calls[1].op = "cleanup" /\ last.calls[1].eventName = dblclick
  /\ last.calls[2].op = "cleanup" /\ last.calls[2].eventName = mousedown
  /\ last.calls[1].handler.seq < last.calls[2].handler.seq
  /\ last.calls[3] = ResetCall
  /\ cleanupFns["i1"] = <<>>

\* C20: a handler property of I that a wire(I) has locked keeps its
\* descriptor (same value, not writable) through every later step, unwire(I)
\* included; an assignment to it is rejected whether I is wired or unwired
\* (with an error exactly from strict-mode code); and every later wire(I)
\* binds the locked value for its event.
C20_LockOutlivesUnwire ==
  [][\A i \in live : \A k \in Locked(i) :
       LET H == own[i][k].name IN
       /\ HasProp(own'[i], H) /\ PropOf(own'[i], H) = own[i][k]
       /\ (last'.op = "assign" /\ last'.inst = i /\ last'.name = H)
          => /\ last'.rejected
             /\ last'.threw <=> last'.args[2]
       /\ WireStep(i)
          => \A a \in DOMAIN AddedListeners(i) :
               AddedListeners(i)[a].type = NativeEvent(H)
               => AddedListeners(i)[a].callback.target = own[i][k].value]_vars

C20_Witness ==
  /\ last.op = "assign" /\ last.inst = "i1" /\ last.rejected
  /\ counts["i1"].state = "unwired"
  /\ counts["i1"].wire = 2 /\ counts["i1"].unwire = 2
  /\ click \in DOMAIN cyc["i1"] /\ cyc["i1"][click].n = 2
  /\ listeners["i1"] = <<>>
  /\ \E k \in Locked("i1") :
       own["i1"][k].name = last.name /\ own["i1"][k].value = last.before

\* C18: a step of one instance (wire, unwire, dispatch, an assignment,
\* rejected or not, an attribute change) leaves the own properties, the
\* listeners and the cleanup registry of every other instance as they were,
\* and a dispatch on an instance only calls functions with that instance as
\* their this.
C18_WiringIsPerInstance ==
  [][/\ \A j \in live :
          last'.inst # j
          => /\ own'[j] = own[j]
             /\ listeners'[j] = listeners[j]
             /\ cleanupFns'[j] = cleanupFns[j]
     /\ last'.op = "dispatch"
        => \A k \in DOMAIN last'.calls : last'.calls[k].this = last'.inst]_vars

C18_Witness ==
  /\ live = {"i1", "i2"}
  /\ last.op = "dispatch" /\ last.inst = "i2"
  /\ Len(last.calls) = 1 /\ last.calls[1].this = "i2"
  /\ counts["i1"].state = "unwired" /\ counts["i1"].wire = 1
  /\ listeners["i1"] = <<>> /\ Locked("i1") # {}
  /\ counts["i2"].state = "wired" /\ Len(listeners["i2"]) = 1
  /\ Locked("i2") # {}

-----------------------------------------------------------------------------
(* Properties of registration and of the name convention. *)

\* C5: a call of defineAutoWebComponent for a tag an implementation is
\* registered under does not throw, emits one warning, makes no
\* customElements.define call and leaves the registry as it was.
C5_DuplicateRegistrationRefused ==
  [][\A t \in Tags :
       (registry[t] # NoClass /\ regLog'.calls = regLog.calls + 1
        /\ regLog'.tagName = t)
       => /\ regLog'.outcome = "warned"
          /\ regLog'.warnings = regLog.warnings + 1
          /\ regLog'.defines = regLog.defines
          /\ registry' = registry]_vars

C5_Witness ==
  /\ regLog.outcome = "warned" /\ regLog.warnings = 1
  /\ registry[regLog.tagName] # NoClass
  /\ registry[regLog.tagName].id < regLog.calls

\* C7: an implementation registered with options.observedAttributes supplied
\* has exactly the supplied sequence as its static observedAttributes,
\* whatever its class declared.
C7_ObservedAttributesAsSupplied ==
  \A t \in Tags :
    (registry[t] # NoClass /\ registry[t].options.has)
    => /\ registry[t].observedAttributes.kind = "field"
       /\ registry[t].observedAttributes.attrs
            = registry[t].options.observedAttributes

C7_Witness ==
  /\ registry["attr-element"] # NoClass
  /\ registry["attr-element"].options.observedAttributes = <<"foo", "bar">>
  /\ registry["attr-element"].observedAttributes.attrs = <<"foo", "bar">>
  /\ registry["attr-element"].declared = [kind |-> "field", attrs |-> <<"own">>]

\* C8: the event name of a method name is the name without its first two
\* characters, in lower case; onClick, onDblClick and onMouseDown give click,
\* dblclick and mousedown.
C8_EventNameIsLowercasedSuffix ==
  nameOut.done
  => /\ Len(nameOut.eventName) = (IF Len(nameIn) > 2 THEN Len(nameIn) - 2 ELSE 0)
     /\ \A k \in DOMAIN nameOut.eventName :
          /\ ~IsUpper(nameOut.eventName[k])
          /\ nameOut.eventName[k] = LowerChar(nameIn[k + 2])
     /\ nameIn = onClick => nameOut.eventName = click
     /\ nameIn = onDblClick => nameOut.eventName = dblclick
     /\ nameIn = onMouseDown => nameOut.eventName = mousedown

C8_Witness ==
  nameOut.done /\ nameIn = onDblClick /\ nameOut.eventName = dblclick

====
